---- MODULE Spec2Model ----
(***************************************************************************)
(* Model of the rangefinder lidar driver (src/src/sl/lidar.rs): the Lidar  *)
(* struct, its foreground operations and the background reader thread,     *)
(* at the granularity of lock acquisitions and transport calls.            *)
(***************************************************************************)
EXTENDS Naturals, Integers, Sequences, FiniteSets, TLC

(* ----------------------------- bounds --------------------------------- *)
\* reader threads the foreground may spawn (calls of start_scan that succeed)
MaxReaders == 2
\* 5-byte quadruplets the transport delivers before every further read fails
MaxReads == 2
\* foreground calls of the public API in one run
MaxOps == 3
\* largest n passed to get_n_samples
MaxN == 2

(* ----------------------------- threads -------------------------------- *)
\* the thread that owns the Lidar value and calls its methods
FG == 0
\* a Mutex nobody holds
NoOwner == -1
Readers == 1..MaxReaders
Threads == {FG} \cup Readers

(* --------------------------- LidarState ------------------------------- *)
Idle == "Idle"
Processing == "Processing"
Scanning == "Scanning"
ProtectionStop == "ProtectionStop"
LidarState == {Idle, Processing, Scanning, ProtectionStop}

(* ------------------- u8 / u16 arithmetic of the decoder ---------------- *)
Byte == 0..255

RECURSIVE BitAnd(_, _)
BitAnd(a, b) ==
    IF a = 0 \/ b = 0 THEN 0
    ELSE (IF a % 2 = 1 /\ b % 2 = 1 THEN 1 ELSE 0) + 2 * BitAnd(a \div 2, b \div 2)

RECURSIVE BitOr(_, _)
BitOr(a, b) ==
    IF a = 0 THEN b
    ELSE IF b = 0 THEN a
    ELSE (IF a % 2 = 1 \/ b % 2 = 1 THEN 1 ELSE 0) + 2 * BitOr(a \div 2, b \div 2)

RECURSIVE BitXor(_, _)
BitXor(a, b) ==
    IF a = 0 THEN b
    ELSE IF b = 0 THEN a
    ELSE (IF a % 2 # b % 2 THEN 1 ELSE 0) + 2 * BitXor(a \div 2, b \div 2)

\* !x on a u8
Not8(x) == 255 - x
\* x << k on a u16 (bits shifted out are lost)
Shl16(x, k) == (x * (2 ^ k)) % 65536
\* x >> k
Shr(x, k) == x \div (2 ^ k)

(* ------------------------------ Sample -------------------------------- *)
\* the value of a Sample that has been moved out or not yet built
NoSample == [start |-> FALSE, intensity |-> 0, angle |-> 0, distance |-> 0]
\* let mut data = [0u8; 5]
ZeroData == <<0, 0, 0, 0, 0>>

\* DecodeAngle with the division by 64 lost
DecodeAngleNoDiv(d) == BitOr(Shl16(d[3], 8), Shr(d[2], 1))

\* lidar.rs 248: (((data[2] as u16) << 8) | (data[1] as u16 >> 1)) / 64
DecodeAngle(d) == BitOr(Shl16(d[3], 8), Shr(d[2], 1)) \div 64

\* lidar.rs 249: (((data[4] as u16) << 8) | data[3] as u16) / 4
DecodeDistance(d) == BitOr(Shl16(d[5], 8), d[4]) \div 4

\* lidar.rs 245-250: the Sample built from one quadruplet (Rust indices 0..4
\* are 1..5 here)
DecodeSample(d) ==
    [start     |-> BitAnd(d[1], 1) # 0,
     intensity |-> Shr(d[1], 2),
     angle     |-> DecodeAngle(d),
     distance  |-> DecodeDistance(d)]

\* lidar.rs 241: the condition under which "parity failed" is printed
\* (Rust binds & tighter than ==, and ! is the bitwise complement of the u8)
ParityFailed(d) ==
    ~(BitAnd(d[1], 1) = BitAnd(Not8(d[1]), 2) /\ BitAnd(d[2], 1) = 1)

(* -------------------------- request frames ---------------------------- *)
\* lidar.rs 53-55: payload.iter().fold(0, |acc, x| acc ^ x)
RECURSIVE checksum(_)
checksum(payload) ==
    IF payload = <<>> THEN 0
    ELSE BitXor(checksum(SubSeq(payload, 1, Len(payload) - 1)),
                payload[Len(payload)])

\* x.to_le_bytes() of an unsigned integer of k bytes
to_le_bytes(x, k) == [i \in 1..k |-> (x \div (256 ^ (i - 1))) % 256]

\* lidar.rs 115-117: the 6-byte frame of set_motor_speed; cmd is the wire
\* code HQMotorSpeedCtrl as u8; the checksum is folded over the whole array,
\* whose last byte is still 0
MotorSpeedReq(cmd, speed) ==
    LET speed_bytes == to_le_bytes(speed, 2)
        frame == <<165, cmd, 2, speed_bytes[1], speed_bytes[2], 0>>
    IN  [frame EXCEPT ![6] = checksum(frame)]

\* LidarConfReq folding the long form's checksum over the first 7 bytes only
LidarConfReqShortSum(cmd, entry, payload) ==
    LET e == to_le_bytes(entry.code[1], 2) \o to_le_bytes(entry.code[2], 2)
        head == <<165, cmd, 0, e[1], e[2], e[3], e[4]>>
    IN  IF entry.short
          THEN LET h == [head EXCEPT ![3] = 4] IN Append(h, checksum(h))
          ELSE LET p == to_le_bytes(payload[1], 2)
                   h == [head EXCEPT ![3] = 8] \o <<p[1], p[2], 0, 0>>
               IN  Append(h, checksum(SubSeq(h, 1, 7)))

\* lidar.rs 154-175: the frame of get_lidar_conf handed to single_req; cmd
\* is GetLidarConf as u8, entry.code is entry as u32 in two 16-bit halves,
\* low half first, and entry.short tells Count and Typical from the other
\* selectors. Short form: 8 bytes, the
\* checksum of req[..7] in req[7]. Long form: 12 bytes, the payload in
\* req[7..9], req[9..11] left 0, the checksum of req[..11] in req[11]
LidarConfReq(cmd, entry, payload) ==
    LET e == to_le_bytes(entry.code[1], 2) \o to_le_bytes(entry.code[2], 2)
        head == <<165, cmd, 0, e[1], e[2], e[3], e[4]>>
    IN  IF entry.short
          THEN LET h == [head EXCEPT ![3] = 4] IN Append(h, checksum(h))
          ELSE LET p == to_le_bytes(payload[1], 2)
                   h == [head EXCEPT ![3] = 8] \o <<p[1], p[2], 0, 0>>
               IN  Append(h, checksum(h))

(* ------------------------- transport inputs --------------------------- *)
\* byte values at the edges of shifts, divisions and folds
EdgeBytes == {0, 1, 2, 3, 4, 63, 64, 127, 128, 129, 252, 253, 254, 255}

\* set_motor_speed in the concurrent model: one wire code and one speed
MotorInputs == { <<168, 600>> }

\* set_motor_speed for the frames alone: every wire code with the extreme
\* speeds, and every low byte and every high byte of the speed against the
\* edge values of the other
FrameMotorInputs ==
    { <<c, s>> : c \in Byte, s \in {0, 65535} }
      \cup { <<168, lo + 256 * hi>> : lo \in Byte, hi \in EdgeBytes }
      \cup { <<168, lo + 256 * hi>> : lo \in EdgeBytes, hi \in Byte }

\* get_lidar_conf: wire codes, selectors (Count and Typical are the short
\* ones) and payloads: None as <<>>, Some(v) as <<v>>
ConfEntries ==
    [short : BOOLEAN,
     code : { <<0, 0>>, <<112, 0>>, <<124, 0>>, <<127, 0>>, <<772, 258>>,
              <<65535, 65535>> }]
ConfPayloads == { <<>> } \cup { <<v>> : v \in {0, 1, 255, 256, 4660, 65535} }
FrameConfInputs ==
    { <<c, e, p>> : c \in {0, 132, 255}, e \in ConfEntries, p \in ConfPayloads }

\* quadruplets the device streams in the concurrent model: a revolution
\* start and a sample that starts none
Quads == { <<1, 1, 0, 0, 0>>, <<2, 3, 1, 8, 0>> }

(* ------------------------------ state --------------------------------- *)
VARIABLES
    \* struct Lidar (lidar.rs 32-38) and its three mutexes
    state,              \* *self.state
    state_owner,        \* thread holding the state mutex, or NoOwner
    channel_owner,      \* thread holding the channel mutex, or NoOwner
    channel_poisoned,   \* a thread panicked while holding the channel mutex
    buffer_owner,       \* thread holding the scan_buffer mutex, or NoOwner
    scan_buffer,        \* *self.scan_buffer
    thread_handle,      \* self.thread_handle: a reader id, or NoOwner for None
    \* the foreground thread
    fgpc,               \* where the foreground is in the method it called
    reset,              \* stop's argument
    n,                  \* get_n_samples' argument
    wr,                 \* Result of the foreground's last channel.write
    req,                \* the checksummed request frame of the call, or <<>>
    descriptor_bytes,   \* rx: the 7-byte header buffer
    hdr_in,             \* the 7 bytes the transport delivered to rx
    len,                \* rx: descriptor.len
    reads,              \* Results of the channel.read calls of this rx
    res,                \* Result<Response, RxError> of single_req
    ret,                \* Vec<Sample> returned by the last get_n_samples
    joined,             \* join: the handle taken out of thread_handle
    \* the reader threads
    rpc,                \* where each reader thread is
    seeking,            \* reader local: let mut seeking
    data,               \* reader local: let mut data = [0u8; 5]
    sample,             \* reader local: let sample
    parity_failed,      \* reader: "parity failed" was printed in the iteration
    \* what the run has used of its bounds
    nOps,               \* public methods called so far
    nReads              \* quadruplets delivered so far

sharedVars == <<state, state_owner, channel_owner, channel_poisoned,
                buffer_owner, scan_buffer, thread_handle>>
fgVars == <<fgpc, reset, n, wr, req, descriptor_bytes, hdr_in, len, reads,
            res, ret, joined, nOps>>
rxVars == <<req, descriptor_bytes, hdr_in, len, reads, res>>
readerVars == <<rpc, seeking, data, sample, parity_failed, nReads>>
vars == <<sharedVars, fgVars, readerVars>>

ZeroHeader == <<0, 0, 0, 0, 0, 0, 0>>
NoRes == [kind |-> "None"]

\* Lidar::init (lidar.rs 41-51) with the port bound, before any call
Init ==
    /\ state = Idle
    /\ state_owner = NoOwner
    /\ channel_owner = NoOwner
    /\ channel_poisoned = FALSE
    /\ buffer_owner = NoOwner
    /\ scan_buffer = <<>>
    /\ thread_handle = NoOwner
    /\ fgpc = "idle"
    /\ reset = FALSE
    /\ n = 0
    /\ wr = "None"
    /\ req = <<>>
    /\ descriptor_bytes = ZeroHeader
    /\ hdr_in = ZeroHeader
    /\ len = 0
    /\ reads = <<>>
    /\ res = NoRes
    /\ ret = <<>>
    /\ joined = NoOwner
    /\ rpc = [r \in Readers |-> "unborn"]
    /\ seeking = [r \in Readers |-> TRUE]
    /\ data = [r \in Readers |-> ZeroData]
    /\ sample = [r \in Readers |-> NoSample]
    /\ parity_failed = [r \in Readers |-> FALSE]
    /\ nOps = 0
    /\ nReads = 0

(* --------------------------- reader thread ---------------------------- *)
\* a reader thread that has returned or panicked
Ended == {"done", "panicked"}
Alive(r) == rpc[r] \notin ({"unborn"} \cup Ended)

\* lidar.rs 210: channel_arc.lock().unwrap() -- a blocking lock; unwrap
\* panics on a poisoned mutex (the guard inside the error is dropped)
ReaderDescLock(r) ==
    /\ rpc[r] = "desc_lock"
    /\ channel_owner = NoOwner
    /\ IF channel_poisoned
         THEN /\ rpc' = [rpc EXCEPT ![r] = "panicked"]
              /\ UNCHANGED channel_owner
         ELSE /\ rpc' = [rpc EXCEPT ![r] = "desc_read"]
              /\ channel_owner' = r
    /\ UNCHANGED <<state, state_owner, channel_poisoned, buffer_owner,
                   scan_buffer, thread_handle, fgVars, seeking, data, sample,
                   nReads,
                   parity_failed>>

\* lidar.rs 210: .read(&mut descriptor).expect("missing descriptor"); the
\* guard is a temporary of the statement: it is dropped after the read, and a
\* panic in expect unwinds through it and poisons the mutex
ReaderDescRead(r) ==
    /\ rpc[r] = "desc_read"
    /\ channel_owner' = NoOwner
    /\ \/ /\ rpc' = [rpc EXCEPT ![r] = "check"]
          /\ UNCHANGED channel_poisoned
       \/ /\ rpc' = [rpc EXCEPT ![r] = "panicked"]
          /\ channel_poisoned' = TRUE
    /\ UNCHANGED <<state, state_owner, buffer_owner, scan_buffer,
                   thread_handle, fgVars, seeking, data, sample, nReads,
                   parity_failed>>

\* lidar.rs 213-214: a new iteration (nothing printed in it yet) begins with
\* state.lock().unwrap() -- blocking; the state mutex is never poisoned (no
\* thread panics while holding it)
ReaderStateLock(r) ==
    /\ rpc[r] = "check"
    /\ state_owner = NoOwner
    /\ state_owner' = r
    /\ rpc' = [rpc EXCEPT ![r] = "mode"]
    /\ parity_failed' = [parity_failed EXCEPT ![r] = FALSE]
    /\ UNCHANGED <<state, channel_owner, channel_poisoned, buffer_owner,
                   scan_buffer, thread_handle, fgVars, seeking, data, sample,
                   nReads>>

\* ReaderMode with the break lost: the loop goes on in any mode
ReaderModeNoBreak(r) ==
    /\ rpc[r] = "mode"
    /\ state_owner' = NoOwner
    /\ data' = [data EXCEPT ![r] = ZeroData]
    /\ rpc' = [rpc EXCEPT ![r] = "trylock"]
    /\ UNCHANGED <<state, channel_owner, channel_poisoned, buffer_owner,
                   scan_buffer, thread_handle, fgVars, seeking, sample, nReads,
                   parity_failed>>

\* ReaderMode with the state guard kept alive over the loop body
ReaderModeGuardKept(r) ==
    /\ rpc[r] = "mode"
    /\ data' = [data EXCEPT ![r] = ZeroData]
    /\ IF state = Scanning
         THEN /\ rpc' = [rpc EXCEPT ![r] = "trylock"]
              /\ UNCHANGED <<seeking, state_owner>>
         ELSE /\ rpc' = [rpc EXCEPT ![r] = "done"]
              /\ seeking' = [seeking EXCEPT ![r] = TRUE]
              /\ state_owner' = NoOwner
    /\ UNCHANGED <<state, channel_owner, channel_poisoned, buffer_owner,
                   scan_buffer, thread_handle, fgVars, sample, nReads,
                   parity_failed>>

\* lidar.rs 214-223: .clone() and the guard dropped at the end of the let;
\* Scanning goes on with a fresh data array, any other mode breaks the loop
\* and the thread returns (its locals are gone)
ReaderMode(r) ==
    /\ rpc[r] = "mode"
    /\ state_owner' = NoOwner
    /\ data' = [data EXCEPT ![r] = ZeroData]
    /\ IF state = Scanning
         THEN /\ rpc' = [rpc EXCEPT ![r] = "trylock"]
              /\ UNCHANGED seeking
         ELSE /\ rpc' = [rpc EXCEPT ![r] = "done"]
              /\ seeking' = [seeking EXCEPT ![r] = TRUE]
    /\ UNCHANGED <<state, channel_owner, channel_poisoned, buffer_owner,
                   scan_buffer, thread_handle, fgVars, sample, nReads,
                   parity_failed>>

\* ReaderTryLock with lock() in place of try_lock(): it waits for the mutex
ReaderTryLockBlocking(r) ==
    /\ rpc[r] = "trylock"
    /\ channel_owner = NoOwner
    /\ channel_owner' = r
    /\ rpc' = [rpc EXCEPT ![r] = IF channel_poisoned THEN "backoff" ELSE "read5"]
    /\ UNCHANGED <<state, state_owner, channel_poisoned, buffer_owner,
                   scan_buffer, thread_handle, fgVars, seeking, data, sample,
                   nReads,
                   parity_failed>>

\* lidar.rs 225-230: channel_arc.try_lock() never waits. Ok(guard) when the
\* mutex is free and sound; Err(WouldBlock) when it is held: sleep 100 ms and
\* continue; Err(Poisoned(guard)) when it is free and poisoned: the guard
\* stays in the match scrutinee for the length of the sleep
ReaderTryLock(r) ==
    /\ rpc[r] = "trylock"
    /\ IF channel_owner # NoOwner
         THEN /\ rpc' = [rpc EXCEPT ![r] = "check"]
              /\ UNCHANGED channel_owner
         ELSE /\ channel_owner' = r
              /\ rpc' = [rpc EXCEPT ![r] =
                            IF channel_poisoned THEN "backoff" ELSE "read5"]
    /\ UNCHANGED <<state, state_owner, channel_poisoned, buffer_owner,
                   scan_buffer, thread_handle, fgVars, seeking, data, sample,
                   nReads,
                   parity_failed>>

\* lidar.rs 226-229, poisoned case: the sleep ends, continue drops the guard
ReaderBackoff(r) ==
    /\ rpc[r] = "backoff"
    /\ channel_owner' = NoOwner
    /\ rpc' = [rpc EXCEPT ![r] = "check"]
    /\ UNCHANGED <<state, state_owner, channel_poisoned, buffer_owner,
                   scan_buffer, thread_handle, fgVars, seeking, data, sample,
                   nReads,
                   parity_failed>>

\* ReaderRead retrying a failed read at once, without the state check
ReaderReadRetries(r) ==
    /\ rpc[r] = "read5"
    /\ channel_owner' = NoOwner
    /\ \/ /\ rpc' = [rpc EXCEPT ![r] = "trylock"]
          /\ UNCHANGED <<data, nReads>>
       \/ /\ nReads < MaxReads
          /\ \E q \in Quads : data' = [data EXCEPT ![r] = q]
          /\ nReads' = nReads + 1
          /\ rpc' = [rpc EXCEPT ![r] = "decode"]
    /\ UNCHANGED <<state, state_owner, channel_poisoned, buffer_owner,
                   scan_buffer, thread_handle, fgVars, seeking, sample,
                   parity_failed>>

\* ReaderRead with a failed read fatal to the thread (expect in place of the
\* match)
ReaderReadErrFatal(r) ==
    /\ rpc[r] = "read5"
    /\ channel_owner' = NoOwner
    /\ \/ /\ rpc' = [rpc EXCEPT ![r] = "panicked"]
          /\ channel_poisoned' = TRUE
          /\ UNCHANGED <<data, nReads>>
       \/ /\ nReads < MaxReads
          /\ \E q \in Quads : data' = [data EXCEPT ![r] = q]
          /\ nReads' = nReads + 1
          /\ rpc' = [rpc EXCEPT ![r] = "decode"]
          /\ UNCHANGED channel_poisoned
    /\ UNCHANGED <<state, state_owner, buffer_owner,
                   scan_buffer, thread_handle, fgVars, seeking, sample,
                   parity_failed>>

\* ReaderRead keeping the channel guard after a successful read, over the
\* decoding and the append
ReaderReadGuardKept(r) ==
    /\ rpc[r] = "read5"
    /\ \/ /\ rpc' = [rpc EXCEPT ![r] = "check"]
          /\ channel_owner' = NoOwner
          /\ UNCHANGED <<data, nReads>>
       \/ /\ nReads < MaxReads
          /\ \E q \in Quads : data' = [data EXCEPT ![r] = q]
          /\ nReads' = nReads + 1
          /\ rpc' = [rpc EXCEPT ![r] = "decode"]
          /\ UNCHANGED channel_owner
    /\ UNCHANGED <<state, state_owner, channel_poisoned, buffer_owner,
                   scan_buffer, thread_handle, fgVars, seeking, sample,
                   parity_failed>>

\* lidar.rs 230-238: channel.read(&mut data); the guard is dropped at the end
\* of the match arm either way. Err: print and continue. Ok: data is filled
ReaderRead(r) ==
    /\ rpc[r] = "read5"
    /\ channel_owner' = NoOwner
    /\ \/ /\ rpc' = [rpc EXCEPT ![r] = "check"]
          /\ UNCHANGED <<data, nReads>>
       \/ /\ nReads < MaxReads
          /\ \E q \in Quads : data' = [data EXCEPT ![r] = q]
          /\ nReads' = nReads + 1
          /\ rpc' = [rpc EXCEPT ![r] = "decode"]
    /\ UNCHANGED <<state, state_owner, channel_poisoned, buffer_owner,
                   scan_buffer, thread_handle, fgVars, seeking, sample,
                   parity_failed>>

\* ReaderDecode with the seeking gate lost: every sample goes to the buffer
ReaderDecodeNoGate(r) ==
    /\ rpc[r] = "decode"
    /\ seeking' = [seeking EXCEPT ![r] = FALSE]
    /\ sample' = [sample EXCEPT ![r] = DecodeSample(data[r])]
    /\ rpc' = [rpc EXCEPT ![r] = "push_lock"]
    /\ parity_failed' = [parity_failed EXCEPT ![r] = ParityFailed(data[r])]
    /\ data' = [data EXCEPT ![r] = ZeroData]
    /\ UNCHANGED <<sharedVars, fgVars, nReads>>

\* ReaderDecode dropping the quadruplets that fail the parity check
ReaderDecodeParityFilter(r) ==
    /\ rpc[r] = "decode"
    /\ LET s == DecodeSample(data[r]) IN
         IF ParityFailed(data[r]) \/ (seeking[r] /\ ~s.start)
           THEN /\ rpc' = [rpc EXCEPT ![r] = "check"]
                /\ UNCHANGED <<seeking, sample>>
           ELSE /\ seeking' = [seeking EXCEPT ![r] = FALSE]
                /\ sample' = [sample EXCEPT ![r] = s]
                /\ rpc' = [rpc EXCEPT ![r] = "push_lock"]
    /\ parity_failed' = [parity_failed EXCEPT ![r] = ParityFailed(data[r])]
    /\ data' = [data EXCEPT ![r] = ZeroData]
    /\ UNCHANGED <<sharedVars, fgVars, nReads>>

\* lidar.rs 240-254: the parity check and its print, the Sample, the seeking
\* gate; data is not read again in this iteration, and the next one starts
\* from zeros
ReaderDecode(r) ==
    /\ rpc[r] = "decode"
    /\ LET s == DecodeSample(data[r]) IN
         IF seeking[r] /\ ~s.start
           THEN /\ rpc' = [rpc EXCEPT ![r] = "check"]
                /\ UNCHANGED <<seeking, sample>>
           ELSE /\ seeking' = [seeking EXCEPT ![r] = FALSE]
                /\ sample' = [sample EXCEPT ![r] = s]
                /\ rpc' = [rpc EXCEPT ![r] = "push_lock"]
    /\ parity_failed' = [parity_failed EXCEPT ![r] = ParityFailed(data[r])]
    /\ data' = [data EXCEPT ![r] = ZeroData]
    /\ UNCHANGED <<sharedVars, fgVars, nReads>>

\* lidar.rs 255: buffer.lock() -- blocking; the buffer mutex is never
\* poisoned, so the Err arm is not taken
ReaderBufferLock(r) ==
    /\ rpc[r] = "push_lock"
    /\ buffer_owner = NoOwner
    /\ buffer_owner' = r
    /\ rpc' = [rpc EXCEPT ![r] = "push"]
    /\ UNCHANGED <<state, state_owner, channel_owner, channel_poisoned,
                   scan_buffer, thread_handle, fgVars, seeking, data, sample,
                   nReads,
                   parity_failed>>

\* lidar.rs 256: buf.push(sample) moves the sample into the buffer; the guard
\* is dropped at the end of the arm
ReaderPush(r) ==
    /\ rpc[r] = "push"
    /\ scan_buffer' = Append(scan_buffer, sample[r])
    /\ sample' = [sample EXCEPT ![r] = NoSample]
    /\ buffer_owner' = NoOwner
    /\ rpc' = [rpc EXCEPT ![r] = "check"]
    /\ UNCHANGED <<state, state_owner, channel_owner, channel_poisoned,
                   thread_handle, fgVars, seeking, data, nReads,
                   parity_failed>>

\* one step of reader thread r (lidar.rs 206-260)
Reader(r) ==
    \/ ReaderDescLock(r)
    \/ ReaderDescRead(r)
    \/ ReaderStateLock(r)
    \/ ReaderMode(r)
    \/ ReaderTryLock(r)
    \/ ReaderBackoff(r)
    \/ ReaderRead(r)
    \/ ReaderDecode(r)
    \/ ReaderBufferLock(r)
    \/ ReaderPush(r)

(* ------------------------- foreground: calls -------------------------- *)
\* the foreground is between two calls and may make another
CanCall == fgpc = "idle" /\ nOps < MaxOps

\* the foreground thread unwinds, by the panic site
PanicPoisoned == "panic: PoisonError"                 \* lock().unwrap()
PanicStop == "panic: Unable to stop lidar"            \* lidar.rs 108
PanicScan == "panic: start_scan write"                \* lidar.rs 202
PanicMotor == "panic: Set motor speed failed"         \* lidar.rs 118
PanicHealth == "panic: Could not read device health"  \* lidar.rs 134
PanicIndex == "panic: index out of bounds"            \* lidar.rs 138-139
PanicJoin == "panic: join"                            \* lidar.rs 291
PanicUnwrap == "panic: unwrap on None"                \* lidar.rs 167
PanicConf == "panic: Could not read lidar conf"       \* lidar.rs 175
Panics == {PanicPoisoned, PanicStop, PanicScan, PanicMotor, PanicHealth,
           PanicIndex, PanicJoin, PanicUnwrap, PanicConf}
FgPanicked == fgpc \in Panics

\* self.channel.lock().unwrap() in a foreground method: blocking; on a
\* poisoned mutex unwrap panics and the guard in the error is dropped
FgChannelLock(at, next) ==
    /\ fgpc = at
    /\ channel_owner = NoOwner
    /\ IF channel_poisoned
         THEN /\ fgpc' = PanicPoisoned
              /\ UNCHANGED channel_owner
         ELSE /\ fgpc' = next
              /\ channel_owner' = FG

(* ------------------------------ stop ---------------------------------- *)
\* lidar.rs 102 / 112: stop(reset) is called; reset() is stop(true)
StopCall ==
    /\ CanCall
    /\ \E b \in BOOLEAN : reset' = b
    /\ fgpc' = "stop_lock"
    /\ nOps' = nOps + 1
    /\ wr' = "None"
    /\ UNCHANGED <<sharedVars, readerVars, n, rxVars, ret, joined>>

\* lidar.rs 103: self.channel.lock().unwrap(); the guard is a temporary of
\* the match scrutinee and lives to the end of the match
StopLock ==
    /\ FgChannelLock("stop_lock", "stop_write")
    /\ UNCHANGED <<state, state_owner, channel_poisoned, buffer_owner,
                   scan_buffer, thread_handle, readerVars, reset, n, wr,
                   rxVars, ret, joined, nOps>>

\* StopWrite with the write's Result ignored: stop goes on to set the state
StopWriteIgnoresErr ==
    /\ fgpc = "stop_write"
    /\ \E w \in {"Ok", "Err"} : wr' = w
    /\ fgpc' = "stop_state"
    /\ UNCHANGED <<state, state_owner, channel_owner, channel_poisoned,
                   buffer_owner, scan_buffer, thread_handle, readerVars,
                   reset, n, rxVars, ret, joined, nOps>>

\* lidar.rs 103-108: .write(&[0xa5, Reset | Stop]); Err panics with the
\* channel guard alive, which poisons the channel mutex
StopWrite ==
    /\ fgpc = "stop_write"
    /\ \/ /\ wr' = "Ok"
          /\ fgpc' = "stop_state"
          /\ UNCHANGED <<channel_owner, channel_poisoned>>
       \/ /\ wr' = "Err"
          /\ fgpc' = PanicStop
          /\ channel_owner' = NoOwner
          /\ channel_poisoned' = TRUE
    /\ UNCHANGED <<state, state_owner, buffer_owner, scan_buffer,
                   thread_handle, readerVars, reset, n, rxVars, ret, joined, nOps>>

\* lidar.rs 105: self.state.lock().unwrap(), with the channel still held
StopStateLock ==
    /\ fgpc = "stop_state"
    /\ state_owner = NoOwner
    /\ state_owner' = FG
    /\ fgpc' = "stop_set"
    /\ UNCHANGED <<state, channel_owner, channel_poisoned, buffer_owner,
                   scan_buffer, thread_handle, readerVars, reset, n, wr,
                   rxVars, ret, joined, nOps>>

\* lidar.rs 105: *guard = Idle; the state guard is dropped with the statement
StopSet ==
    /\ fgpc = "stop_set"
    /\ state' = Idle
    /\ state_owner' = NoOwner
    /\ fgpc' = "stop_sleep"
    /\ UNCHANGED <<channel_owner, channel_poisoned, buffer_owner, scan_buffer,
                   thread_handle, readerVars, reset, n, wr,
                   rxVars, ret, joined, nOps>>

\* lidar.rs 106-110: sleep(2 ms) with the channel held, then the match ends
\* and the channel guard is dropped
StopSleep ==
    /\ fgpc = "stop_sleep"
    /\ channel_owner' = NoOwner
    /\ fgpc' = "idle"
    /\ reset' = FALSE
    /\ wr' = "None"
    /\ UNCHANGED <<state, state_owner, channel_poisoned, buffer_owner,
                   scan_buffer, thread_handle, readerVars, n, rxVars, ret,
                   joined, nOps>>

(* ---------------------------- start_scan ------------------------------ *)
\* the reader id the next spawn gets
NextReader == CHOOSE r \in Readers : rpc[r] = "unborn" /\
                  \A q \in Readers : rpc[q] = "unborn" => r <= q

\* lidar.rs 184: start_scan() is called (while a thread can still be spawned)
StartScanCall ==
    /\ CanCall
    /\ \E r \in Readers : rpc[r] = "unborn"
    /\ fgpc' = "scan_lock"
    /\ nOps' = nOps + 1
    /\ wr' = "None"
    /\ UNCHANGED <<sharedVars, readerVars, reset, n, rxVars, ret, joined>>

\* lidar.rs 189: self.channel.lock().unwrap() inside the closure
StartScanLock ==
    /\ FgChannelLock("scan_lock", "scan_write")
    /\ UNCHANGED <<state, state_owner, channel_poisoned, buffer_owner,
                   scan_buffer, thread_handle, readerVars, reset, n, wr,
                   rxVars, ret, joined, nOps>>

\* lidar.rs 189-203: .write(&[0xa5, Scan]); the closure returns and drops the
\* guard before the match, so Err panics without poisoning the mutex
StartScanWrite ==
    /\ fgpc = "scan_write"
    /\ channel_owner' = NoOwner
    /\ \/ /\ wr' = "Ok"
          /\ fgpc' = "scan_state"
       \/ /\ wr' = "Err"
          /\ fgpc' = PanicScan
    /\ UNCHANGED <<state, state_owner, channel_poisoned, buffer_owner,
                   scan_buffer, thread_handle, readerVars, reset, n,
                   rxVars, ret, joined, nOps>>

\* lidar.rs 191: self.state.lock().unwrap()
StartScanStateLock ==
    /\ fgpc = "scan_state"
    /\ state_owner = NoOwner
    /\ state_owner' = FG
    /\ fgpc' = "scan_set"
    /\ UNCHANGED <<state, channel_owner, channel_poisoned, buffer_owner,
                   scan_buffer, thread_handle, readerVars, reset, n, wr,
                   rxVars, ret, joined, nOps>>

\* lidar.rs 191: *guard = Scanning; the guard is dropped with the statement
StartScanSet ==
    /\ fgpc = "scan_set"
    /\ state' = Scanning
    /\ state_owner' = NoOwner
    /\ fgpc' = "scan_spawn"
    /\ UNCHANGED <<channel_owner, channel_poisoned, buffer_owner, scan_buffer,
                   thread_handle, readerVars, reset, n, wr,
                   rxVars, ret, joined, nOps>>

\* StartScanSpawn clearing the buffer for the new scan session
StartScanSpawnClears ==
    /\ fgpc = "scan_spawn"
    /\ rpc' = [rpc EXCEPT ![NextReader] = "desc_lock"]
    /\ seeking' = [seeking EXCEPT ![NextReader] = TRUE]
    /\ thread_handle' = NextReader
    /\ scan_buffer' = <<>>
    /\ fgpc' = "idle"
    /\ wr' = "None"
    /\ UNCHANGED <<state, state_owner, channel_owner, channel_poisoned,
                   buffer_owner, data, sample, nReads, reset,
                   n, rxVars, ret, joined, nOps,
                   parity_failed>>

\* lidar.rs 195-200: after the 1 s sleep, thread::spawn a reader (seeking =
\* true) and store its handle over whatever handle was there
StartScanSpawn ==
    /\ fgpc = "scan_spawn"
    /\ rpc' = [rpc EXCEPT ![NextReader] = "desc_lock"]
    /\ seeking' = [seeking EXCEPT ![NextReader] = TRUE]
    /\ thread_handle' = NextReader
    /\ fgpc' = "idle"
    /\ wr' = "None"
    /\ UNCHANGED <<state, state_owner, channel_owner, channel_poisoned,
                   buffer_owner, scan_buffer, data, sample, nReads, reset,
                   n, rxVars, ret, joined, nOps,
                   parity_failed>>

(* ------------------------------- join --------------------------------- *)
\* lidar.rs 289-290: join() is called; self.thread_handle.take()
JoinCall ==
    /\ CanCall
    /\ nOps' = nOps + 1
    /\ joined' = thread_handle
    /\ thread_handle' = NoOwner
    /\ fgpc' = IF thread_handle = NoOwner THEN "idle" ELSE "join_wait"
    /\ UNCHANGED <<state, state_owner, channel_owner, channel_poisoned,
                   buffer_owner, scan_buffer, readerVars, reset, n, wr,
                   rxVars, ret>>

\* lidar.rs 291: handle.join().unwrap() returns when the thread has ended,
\* and panics when the thread ended by a panic
JoinWait ==
    /\ fgpc = "join_wait"
    /\ rpc[joined] \in Ended
    /\ fgpc' = IF rpc[joined] = "panicked" THEN PanicJoin ELSE "idle"
    /\ joined' = NoOwner
    /\ UNCHANGED <<sharedVars, readerVars, reset, n, wr, rxVars, ret,
                   nOps>>

(* --------------------------- get_n_samples ---------------------------- *)
\* lidar.rs 278: get_n_samples(n) is called
GetNSamplesCall ==
    /\ CanCall
    /\ \E k \in 1..MaxN : n' = k
    /\ fgpc' = "gns_lock"
    /\ nOps' = nOps + 1
    /\ UNCHANGED <<sharedVars, readerVars, reset, wr, rxVars, ret, joined>>

\* lidar.rs 281: self.scan_buffer.lock().unwrap()
GetNSamplesLock ==
    /\ fgpc = "gns_lock"
    /\ buffer_owner = NoOwner
    /\ buffer_owner' = FG
    /\ fgpc' = "gns_check"
    /\ UNCHANGED <<state, state_owner, channel_owner, channel_poisoned,
                   scan_buffer, thread_handle, readerVars, reset, n, wr,
                   rxVars, ret, joined, nOps>>

\* lidar.rs 282-284: break when buffer.len() >= n, else sleep 1 s and look
\* again; the guard is dropped at the end of the block either way
GetNSamplesCheck ==
    /\ fgpc = "gns_check"
    /\ buffer_owner' = NoOwner
    /\ fgpc' = IF Len(scan_buffer) >= n THEN "gns_lock2" ELSE "gns_lock"
    /\ UNCHANGED <<state, state_owner, channel_owner, channel_poisoned,
                   scan_buffer, thread_handle, readerVars, reset, n, wr,
                   rxVars, ret, joined, nOps>>

\* lidar.rs 286: self.scan_buffer.lock().unwrap(), a second acquisition
GetNSamplesLock2 ==
    /\ fgpc = "gns_lock2"
    /\ buffer_owner = NoOwner
    /\ buffer_owner' = FG
    /\ fgpc' = "gns_copy"
    /\ UNCHANGED <<state, state_owner, channel_owner, channel_poisoned,
                   scan_buffer, thread_handle, readerVars, reset, n, wr,
                   rxVars, ret, joined, nOps>>

\* TakeN taking from the wrong end: the last k elements
TakeLastN(v, k) == SubSeq(v, IF Len(v) < k THEN 1 ELSE Len(v) - k + 1, Len(v))

\* .clone().into_iter().take(n).collect() on a vector v
TakeN(v, k) == SubSeq(v, 1, IF Len(v) < k THEN Len(v) ELSE k)

\* lidar.rs 286: the copy of the first n samples is returned
GetNSamplesCopy ==
    /\ fgpc = "gns_copy"
    /\ ret' = TakeN(scan_buffer, n)
    /\ buffer_owner' = NoOwner
    /\ fgpc' = "idle"
    /\ n' = 0
    /\ UNCHANGED <<state, state_owner, channel_owner, channel_poisoned,
                   scan_buffer, thread_handle, readerVars, reset, wr,
                   rxVars, joined, nOps>>

(* ---------------------- single_req, rx, get_health --------------------- *)
\* 7-byte headers the transport delivers to rx: both sync bytes right or
\* wrong one by one; a payload length of 4 with the send_mode bits clear, or
\* of 0 with them set; data type 6
Headers ==
    { <<b0, b1, lm[1], 0, 0, lm[2], 6>> :
        b0 \in {165, 90}, b1 \in {90, 165}, lm \in {<<4, 0>>, <<0, 192>>} }

\* payloads of k bytes the transport delivers: one byte value repeated
PayloadBytes == {0, 129}
Payloads(k) == { [i \in 1..k |-> b] : b \in PayloadBytes }

\* crate::util::read_le_u32 on the four length bytes
read_le_u32(b) == b[1] + 256 * b[2] + 65536 * b[3] + 16777216 * b[4]

PortError == [kind |-> "PortError"]
Corrupted(bytes) == [kind |-> "Corrupted", bytes |-> bytes]
Response(descriptor, payload) ==
    [kind |-> "Ok", descriptor |-> descriptor, data |-> payload]

\* BadSync looking at the first sync byte only
BadSyncFirstByte(b) == b[1] # 165

\* lidar.rs 73: descriptor_bytes[0..2] != [0xa5, 0x5a]
BadSync(b) == <<b[1], b[2]>> # <<165, 90>>

\* lidar.rs 133-134: get_health() is called: single_req(&[0xa5, GetDeviceHealth])
GetHealthCall ==
    /\ CanCall
    /\ fgpc' = "req_lock"
    /\ nOps' = nOps + 1
    /\ wr' = "None"
    /\ UNCHANGED <<sharedVars, readerVars, reset, n, rxVars, ret, joined>>

\* lidar.rs 58: let mut channel = self.channel.lock().unwrap()
SingleReqLock ==
    /\ FgChannelLock("req_lock", "req_write")
    /\ UNCHANGED <<state, state_owner, channel_poisoned, buffer_owner,
                   scan_buffer, thread_handle, readerVars, reset, n, wr,
                   rxVars, ret, joined, nOps>>

\* SingleReqWrite dropping the guard after the write: rx reads the response
\* without the channel lock
SingleReqWriteDropsGuard ==
    /\ fgpc = "req_write"
    /\ channel_owner' = NoOwner
    /\ \/ /\ wr' = "Ok"
          /\ fgpc' = "rx_header"
          /\ UNCHANGED res
       \/ /\ wr' = "Err"
          /\ res' = PortError
          /\ fgpc' = "req_done"
    /\ UNCHANGED <<state, state_owner, channel_poisoned, buffer_owner,
                   scan_buffer, thread_handle, readerVars, reset, n, req,
                   descriptor_bytes, hdr_in, len, reads, ret, joined, nOps>>

\* lidar.rs 59-62: channel.write(&req); Ok hands the guard to rx, Err returns
\* PortError and drops the guard
SingleReqWrite ==
    /\ fgpc = "req_write"
    /\ \/ /\ wr' = "Ok"
          /\ fgpc' = "rx_header"
          /\ UNCHANGED <<channel_owner, res>>
       \/ /\ wr' = "Err"
          /\ res' = PortError
          /\ channel_owner' = NoOwner
          /\ fgpc' = "req_done"
    /\ UNCHANGED <<state, state_owner, channel_poisoned, buffer_owner,
                   scan_buffer, thread_handle, readerVars, reset, n, req,
                   descriptor_bytes, hdr_in, len, reads, ret, joined, nOps>>

\* lidar.rs 67-71: channel.read(&mut descriptor_bytes); Err returns PortError
RxHeader ==
    /\ fgpc = "rx_header"
    /\ \/ /\ \E h \in Headers : /\ hdr_in' = h
                                /\ descriptor_bytes' = h
          /\ reads' = Append(reads, "Ok")
          /\ fgpc' = "rx_parse"
          /\ UNCHANGED <<channel_owner, res>>
       \/ /\ reads' = Append(reads, "Err")
          /\ res' = PortError
          /\ channel_owner' = NoOwner
          /\ fgpc' = "req_done"
          /\ UNCHANGED <<hdr_in, descriptor_bytes>>
    /\ UNCHANGED <<state, state_owner, channel_poisoned, buffer_owner,
                   scan_buffer, thread_handle, readerVars, reset, n, wr,
                   req, len, ret, joined, nOps>>

\* lidar.rs 73-87: the sync check returns Corrupted(descriptor_bytes);
\* otherwise the send_mode bits are cleared in byte 5 and len is read
RxParse ==
    /\ fgpc = "rx_parse"
    /\ IF BadSync(descriptor_bytes)
         THEN /\ res' = Corrupted(descriptor_bytes)
              /\ channel_owner' = NoOwner
              /\ fgpc' = "req_done"
              /\ UNCHANGED <<descriptor_bytes, len>>
         ELSE LET b5 == descriptor_bytes[6]
                  cleared == [descriptor_bytes EXCEPT
                                 ![6] = BitXor(b5, BitAnd(b5, 192))]
              IN  /\ descriptor_bytes' = cleared
                  /\ len' = read_le_u32(SubSeq(cleared, 3, 6))
                  /\ fgpc' = "rx_data"
                  /\ UNCHANGED <<channel_owner, res>>
    /\ UNCHANGED <<state, state_owner, channel_poisoned, buffer_owner,
                   scan_buffer, thread_handle, readerVars, reset, n, wr,
                   req, hdr_in, reads, ret, joined, nOps>>

\* lidar.rs 77-78, 83-87: the ResponseDescriptor of the header as delivered
Descriptor ==
    [len       |-> len,
     send_mode |-> Shr(BitAnd(hdr_in[6], 192), 6),
     data_type |-> hdr_in[7]]

\* lidar.rs 90-99: channel.read(&mut data) of len bytes; the guard is dropped
\* when rx returns
RxData ==
    /\ fgpc = "rx_data"
    /\ \/ /\ \E d \in Payloads(len) : res' = Response(Descriptor, d)
          /\ reads' = Append(reads, "Ok")
       \/ /\ res' = PortError
          /\ reads' = Append(reads, "Err")
    /\ channel_owner' = NoOwner
    /\ fgpc' = "req_done"
    /\ UNCHANGED <<state, state_owner, channel_poisoned, buffer_owner,
                   scan_buffer, thread_handle, readerVars, reset, n, wr,
                   req, descriptor_bytes, hdr_in, len, ret, joined, nOps>>

\* lidar.rs 134-140: .expect("Could not read device health") panics on Err,
\* data[0..3] panics on a payload shorter than 3 bytes; else the health is
\* returned and rx's locals are gone
GetHealthReturn ==
    /\ fgpc = "req_done"
    /\ req = <<>>
    /\ fgpc' = IF res.kind # "Ok" THEN PanicHealth
               ELSE IF Len(res.data) < 3 THEN PanicIndex
               ELSE "idle"
    /\ descriptor_bytes' = ZeroHeader
    /\ hdr_in' = ZeroHeader
    /\ len' = 0
    /\ reads' = <<>>
    /\ res' = NoRes
    /\ wr' = IF wr = "Err" THEN "Err" ELSE "None"
    /\ UNCHANGED <<sharedVars, readerVars, reset, n, req, ret, joined, nOps>>

(* -------------------------- set_motor_speed --------------------------- *)
\* lidar.rs 114-117: set_motor_speed(speed) is called and builds its frame,
\* for a wire code and a speed of the set I
SetMotorSpeedCallOn(I) ==
    /\ CanCall
    /\ \E i \in I : req' = MotorSpeedReq(i[1], i[2])
    /\ fgpc' = "motor_lock"
    /\ nOps' = nOps + 1
    /\ wr' = "None"
    /\ UNCHANGED <<sharedVars, readerVars, reset, n, descriptor_bytes, hdr_in,
                   len, reads, res, ret, joined>>

SetMotorSpeedCall == SetMotorSpeedCallOn(MotorInputs)

\* lidar.rs 118: self.channel.lock().unwrap()
SetMotorSpeedLock ==
    /\ FgChannelLock("motor_lock", "motor_write")
    /\ UNCHANGED <<state, state_owner, channel_poisoned, buffer_owner,
                   scan_buffer, thread_handle, readerVars, reset, n, wr,
                   rxVars, ret, joined, nOps>>

\* lidar.rs 118: .write(&req).expect("Set motor speed failed"); the guard is
\* a temporary of the statement, so the panic poisons the mutex
SetMotorSpeedWrite ==
    /\ fgpc = "motor_write"
    /\ channel_owner' = NoOwner
    /\ \/ /\ wr' = "None"
          /\ fgpc' = "idle"
          /\ UNCHANGED channel_poisoned
       \/ /\ wr' = "Err"
          /\ fgpc' = PanicMotor
          /\ channel_poisoned' = TRUE
    /\ req' = <<>>
    /\ UNCHANGED <<state, state_owner, buffer_owner, scan_buffer,
                   thread_handle, readerVars, reset, n, descriptor_bytes,
                   hdr_in, len, reads, res, ret, joined, nOps>>

(* --------------------------- get_lidar_conf --------------------------- *)
\* lidar.rs 153-175: get_lidar_conf(entry, payload) is called and builds its
\* frame; payload.unwrap() panics on None for a selector other than Count
\* and Typical
GetLidarConfCall ==
    /\ CanCall
    /\ \E i \in FrameConfInputs :
          IF ~i[2].short /\ i[3] = <<>>
            THEN /\ fgpc' = PanicUnwrap
                 /\ UNCHANGED req
            ELSE /\ fgpc' = "req_lock"
                 /\ req' = LidarConfReq(i[1], i[2], i[3])
    /\ nOps' = nOps + 1
    /\ wr' = "None"
    /\ UNCHANGED <<sharedVars, readerVars, reset, n, descriptor_bytes, hdr_in,
                   len, reads, res, ret, joined>>

\* lidar.rs 175-181: .expect("Could not read lidar conf") panics on Err,
\* data[..4] panics on a payload shorter than 4 bytes; else the
\* configuration is returned and the locals are gone
GetLidarConfReturn ==
    /\ fgpc = "req_done"
    /\ req # <<>>
    /\ fgpc' = IF res.kind # "Ok" THEN PanicConf
               ELSE IF Len(res.data) < 4 THEN PanicIndex
               ELSE "idle"
    /\ req' = <<>>
    /\ descriptor_bytes' = ZeroHeader
    /\ hdr_in' = ZeroHeader
    /\ len' = 0
    /\ reads' = <<>>
    /\ res' = NoRes
    /\ wr' = IF wr = "Err" THEN "Err" ELSE "None"
    /\ UNCHANGED <<sharedVars, readerVars, reset, n, ret, joined, nOps>>

(* --------------------------- specification ---------------------------- *)
\* one step of the foreground thread
Foreground ==
    \/ StopCall \/ StopLock \/ StopWrite \/ StopStateLock \/ StopSet
    \/ StopSleep
    \/ StartScanCall \/ StartScanLock \/ StartScanWrite \/ StartScanStateLock
    \/ StartScanSet \/ StartScanSpawn
    \/ JoinCall \/ JoinWait
    \/ GetNSamplesCall \/ GetNSamplesLock \/ GetNSamplesCheck
    \/ GetNSamplesLock2 \/ GetNSamplesCopy
    \/ GetHealthCall \/ SingleReqLock \/ SingleReqWrite \/ RxHeader
    \/ RxParse \/ RxData \/ GetHealthReturn
    \/ SetMotorSpeedCall \/ SetMotorSpeedLock \/ SetMotorSpeedWrite

Next == Foreground \/ \E r \in Readers : Reader(r)

Spec == Init /\ [][Next]_vars

\* the calls that build a checksummed frame, over FrameMotorInputs and
\* FrameConfInputs, on a driver that runs no scan
SetMotorSpeedCallAny == SetMotorSpeedCallOn(FrameMotorInputs)

NextFrames ==
    \/ SetMotorSpeedCallAny \/ SetMotorSpeedLock \/ SetMotorSpeedWrite
    \/ GetLidarConfCall \/ SingleReqLock \/ SingleReqWrite \/ RxHeader
    \/ RxParse \/ RxData \/ GetLidarConfReturn

SpecFrames == Init /\ [][NextFrames]_vars

(* ============================== claims ================================ *)
IsPrefix(a, b) == Len(a) <= Len(b) /\ SubSeq(b, 1, Len(a)) = a

\* C1 as stated: once stop(reset=false) has set the state to Idle, the scan
\* buffer does not grow any more (checked while the foreground is still in
\* that stop, after the assignment)
C1_NoAppendAfterStop ==
    [][(fgpc = "stop_sleep" /\ ~reset /\ state = Idle)
          => scan_buffer' = scan_buffer]_vars

\* C1 amended: every append is made by a reader thread that goes straight
\* back to its state check, the state check leads only to reading the mode,
\* and a reader that reads a mode other than Scanning returns without
\* appending; so after stop has set Idle each reader appends at most one more
\* sample, the one it had passed the state check for
C1_AtMostOneAppendThenExit ==
    [][ /\ scan_buffer' # scan_buffer =>
              \E r \in Readers : /\ rpc[r] = "push"
                                 /\ rpc'[r] = "check"
                                 /\ scan_buffer' = Append(scan_buffer, sample[r])
        /\ \A r \in Readers :
              /\ (rpc[r] = "check" /\ rpc'[r] # "check") => rpc'[r] = "mode"
              /\ (rpc[r] = "mode" /\ rpc'[r] # "mode" /\ state # Scanning)
                    => (rpc'[r] = "done" /\ scan_buffer' = scan_buffer)
      ]_vars

\* C1's case: stop(false) has just set Idle and a reader that passed its
\* state check before holds the buffer lock, about to append
C1_Witness ==
    /\ fgpc = "stop_sleep" /\ ~reset /\ state = Idle
    /\ \E r \in Readers : rpc[r] = "push"

\* C2 as stated: a reader thread ends only in the step in which it reads a
\* mode other than Scanning
C2_EndsOnlyOnModeNotScanning ==
    [][\A r \in Readers :
          (rpc[r] \notin Ended /\ rpc'[r] \in Ended)
              => (rpc[r] = "mode" /\ state # Scanning)]_vars

\* C3: the first sample of a non-empty buffer has start = true; a reader that
\* is still seeking is never about to append; a sample without start decoded
\* by a seeking reader is dropped and the reader goes on seeking
C3_SeekingGate ==
    /\ [](/\ Len(scan_buffer) > 0 => scan_buffer[1].start
          /\ \A r \in Readers : seeking[r] => rpc[r] \notin {"push_lock", "push"})
    /\ [][\A r \in Readers :
            (/\ rpc[r] = "decode" /\ rpc'[r] # "decode"
             /\ seeking[r] /\ ~DecodeSample(data[r]).start)
               => (/\ rpc'[r] = "check" /\ seeking'[r]
                   /\ scan_buffer' = scan_buffer /\ sample'[r] = sample[r])]_vars

\* C3's case: two quadruplets were read, one sample is in the buffer and no
\* reader holds another: the gate has dropped one
C3_Witness ==
    /\ nReads = 2 /\ Len(scan_buffer) = 1 /\ scan_buffer[1].start
    /\ \A r \in Readers : rpc[r] \notin {"decode", "push_lock", "push"}

\* C4: get_n_samples(n) returns with at least n samples in the buffer, its
\* result is the first n elements of the buffer, and the result of the call
\* before it, if no longer, is a prefix of it; every result stays a prefix of
\* the buffer, whatever the readers append
C4_PrefixSnapshot ==
    /\ [](IsPrefix(ret, scan_buffer))
    /\ [][(fgpc = "gns_copy" /\ fgpc' = "idle")
            => (/\ Len(scan_buffer) >= n
                /\ Len(ret') = n
                /\ \A i \in 1..n : ret'[i] = scan_buffer[i]
                /\ Len(ret) <= n => IsPrefix(ret, ret'))]_vars

\* C4's case: a call has returned one sample, a later call with n = 2 holds
\* the buffer lock and is about to copy
C4_Witness ==
    /\ fgpc = "gns_copy" /\ n = 2
    /\ Len(ret) = 1 /\ Len(scan_buffer) >= 2

\* C5 as stated: at most one reader thread has been spawned and not ended
C5_AtMostOneReaderAlive ==
    Cardinality({r \in Readers : Alive(r)}) <= 1

\* one step of thread t
Step(t) == IF t = FG THEN Foreground ELSE Reader(t)

\* thread t is at an acquisition of the channel, state or buffer mutex
WantsChannel(t) ==
    IF t = FG THEN fgpc \in {"stop_lock", "scan_lock", "req_lock", "motor_lock"}
              ELSE rpc[t] \in {"desc_lock", "trylock"}
WantsState(t) ==
    IF t = FG THEN fgpc \in {"stop_state", "scan_state"} ELSE rpc[t] = "check"
WantsBuffer(t) ==
    IF t = FG THEN fgpc \in {"gns_lock", "gns_lock2"} ELSE rpc[t] = "push_lock"

\* thread t cannot take a step because thread u holds the mutex it is at
WaitsFor(t, u) ==
    /\ \/ WantsChannel(t) /\ channel_owner = u
       \/ WantsState(t) /\ state_owner = u
       \/ WantsBuffer(t) /\ buffer_owner = u
    /\ ~ENABLED Step(t)

Deadlocked(S) == S # {} /\ \A t \in S : \E u \in S : WaitsFor(t, u)

\* C7: no set of threads (the foreground and a reader in particular) is such
\* that each waits for a mutex another of them holds
C7_NoLockCycle ==
    \A S \in SUBSET Threads : ~Deadlocked(S)

\* C7's case: stop() holds the channel and waits for the state mutex, which a
\* reader holds for its state check, while another reader waits for the
\* channel
C7_Witness ==
    /\ fgpc = "stop_state" /\ channel_owner = FG
    /\ \E r1, r2 \in Readers : WaitsFor(FG, r1) /\ WaitsFor(r2, FG)

\* C8: the state is Idle or Scanning; it changes only in stop's assignment
\* (to Idle) and start_scan's assignment (to Scanning), both after a write
\* that returned Ok; a failed write of stop or start_scan panics with the
\* state, the handle and the reader threads as they were, and a foreground
\* that has panicked changes no state and spawns nothing
C8_StateTransitions ==
    /\ [](state \in {Idle, Scanning})
    /\ [][ /\ state' # state =>
                 /\ wr = "Ok"
                 /\ \/ fgpc = "stop_set" /\ state' = Idle
                    \/ fgpc = "scan_set" /\ state' = Scanning
           /\ (fgpc = "stop_set" /\ fgpc' # fgpc) => state' = Idle
           /\ (fgpc = "scan_set" /\ fgpc' # fgpc) => state' = Scanning
           /\ (fgpc \in {"stop_write", "scan_write"} /\ wr' = "Err") =>
                 /\ fgpc' = (IF fgpc = "stop_write" THEN PanicStop ELSE PanicScan)
                 /\ state' = state
                 /\ thread_handle' = thread_handle
                 /\ rpc' = rpc
           /\ FgPanicked =>
                 /\ fgpc' = fgpc
                 /\ state' = state
                 /\ thread_handle' = thread_handle
                 /\ \A r \in Readers : rpc[r] = "unborn" => rpc'[r] = "unborn"
         ]_vars

\* C8's case: the write of a stop() issued while Scanning has failed
C8_Witness ==
    fgpc = PanicStop /\ wr = "Err" /\ state = Scanning

\* C9: when single_req's rx has returned, the result is Corrupted exactly
\* when the request was written, the header read succeeded with sync bytes
\* other than [0xA5, 0x5A] and no further read was made, and it then carries
\* the 7 bytes as delivered; it is PortError exactly when the write or the
\* last read failed; the payload is read only after a header with the right
\* sync bytes
C9_RxErrors ==
    LET badSync == <<hdr_in[1], hdr_in[2]>> # <<165, 90>> IN
    /\ fgpc = "rx_data" => (~badSync /\ reads = <<"Ok">>)
    /\ fgpc = "req_done" =>
         /\ res.kind = "Corrupted" <=>
               (wr = "Ok" /\ reads = <<"Ok">> /\ badSync)
         /\ res.kind = "Corrupted" => res.bytes = hdr_in
         /\ res.kind = "PortError" <=>
               (wr = "Err" \/ (reads # <<>> /\ reads[Len(reads)] = "Err"))
         /\ res.kind = "Ok" <=> reads = <<"Ok", "Ok">>

\* C9's case: rx has returned Corrupted for a header whose first sync byte is
\* right, whose second is wrong and whose send_mode bits are set
C9_Witness ==
    /\ fgpc = "req_done" /\ res.kind = "Corrupted"
    /\ hdr_in[1] = 165 /\ hdr_in[2] # 90 /\ hdr_in[6] = 192

(* --------------------- the decoder on every input --------------------- *)
\* quadruplets for the decoder alone: byte 0 over all its values, alone and
\* against the edge values of byte 1 (the parity bits); bytes 1 and 2 (the
\* angle), then bytes 3 and 4 (the distance), one over all its values and
\* the other over the edge values; the remaining bytes 0
DecodeInputs ==
    { <<b, 0, 0, 0, 0>> : b \in Byte }
      \cup { <<b, e, 0, 0, 0>> : b \in Byte, e \in EdgeBytes }
      \cup { <<0, b, e, 0, 0>> : b \in Byte, e \in EdgeBytes }
      \cup { <<0, e, b, 0, 0>> : b \in Byte, e \in EdgeBytes }
      \cup { <<0, 0, 0, b, e>> : b \in Byte, e \in EdgeBytes }
      \cup { <<0, 0, 0, e, b>> : b \in Byte, e \in EdgeBytes }

\* a scan session in which the first reader thread has just read a
\* quadruplet (lidar.rs 231), seeking or not
InitDecode ==
    /\ state = Scanning
    /\ state_owner = NoOwner
    /\ channel_owner = NoOwner
    /\ channel_poisoned = FALSE
    /\ buffer_owner = NoOwner
    /\ scan_buffer = <<>>
    /\ thread_handle = 1
    /\ fgpc = "idle"
    /\ reset = FALSE
    /\ n = 0
    /\ wr = "None"
    /\ req = <<>>
    /\ descriptor_bytes = ZeroHeader
    /\ hdr_in = ZeroHeader
    /\ len = 0
    /\ reads = <<>>
    /\ res = NoRes
    /\ ret = <<>>
    /\ joined = NoOwner
    /\ rpc = [r \in Readers |-> IF r = 1 THEN "decode" ELSE "unborn"]
    /\ \E b \in BOOLEAN :
          seeking = [r \in Readers |-> IF r = 1 THEN b ELSE TRUE]
    /\ \E q \in DecodeInputs :
          data = [r \in Readers |-> IF r = 1 THEN q ELSE ZeroData]
    /\ sample = [r \in Readers |-> NoSample]
    /\ parity_failed = [r \in Readers |-> FALSE]
    /\ nOps = 1
    /\ nReads = 1

NextDecode == \E r \in Readers : ReaderDecode(r)

SpecDecode == InitDecode /\ [][NextDecode]_vars

\* C10 as stated: every decoded Sample has intensity <= 63, angle < 256 and
\* distance < 16384
C10_BoundsAsStated ==
    \A r \in Readers :
        /\ sample[r].intensity <= 63
        /\ sample[r].angle < 256
        /\ sample[r].distance < 16384

\* C10 amended: every decoded Sample has intensity <= 63, angle < 1024
\* (= 65536 / 64) and distance < 16384 (= 65536 / 4)
C10_DecodeBounds ==
    \A r \in Readers :
        /\ sample[r].start \in BOOLEAN
        /\ sample[r].intensity \in 0..63
        /\ sample[r].angle \in 0..1023
        /\ sample[r].distance \in 0..16383

\* C10's case: a quadruplet with byte 2 = 0xFF and byte 1 = 0xFF has been
\* decoded: the angle is 1021
C10_Witness ==
    \E r \in Readers : rpc[r] = "push_lock" /\ sample[r].angle = 1021

\* C11: every checksummed frame the foreground has built XOR-folds to 0 over
\* its whole length, checksum byte included; it starts with 0xA5 and is the
\* 6-byte motor-speed frame (length byte 2), the 8-byte configuration frame
\* (length byte 4) or the 12-byte one (length byte 8, two zero bytes before
\* the checksum); its last byte is the fold of the bytes before it
C11_FramesFoldToZero ==
    req # <<>> =>
        /\ checksum(req) = 0
        /\ req[Len(req)] = checksum(SubSeq(req, 1, Len(req) - 1))
        /\ req[1] = 165
        /\ \/ Len(req) = 6 /\ req[3] = 2
           \/ Len(req) = 8 /\ req[3] = 4
           \/ Len(req) = 12 /\ req[3] = 8 /\ req[10] = 0 /\ req[11] = 0
        /\ \A i \in 1..Len(req) : req[i] \in Byte

\* C11's case: the 12-byte frame of a selector with code 0x01020304 and the
\* payload 0x1234 has been built and is about to be written
C11_Witness ==
    /\ fgpc = "req_write"
    /\ Len(req) = 12
    /\ SubSeq(req, 4, 9) = <<4, 3, 2, 1, 52, 18>>

(* ------------------- a driver whose scan has started ------------------- *)
\* start_scan has returned once (lidar.rs 184-204): the state is Scanning,
\* the first reader thread is spawned and has not run yet, its handle is
\* stored; nOps counts the calls made after that one
InitScan ==
    /\ state = Scanning
    /\ state_owner = NoOwner
    /\ channel_owner = NoOwner
    /\ channel_poisoned = FALSE
    /\ buffer_owner = NoOwner
    /\ scan_buffer = <<>>
    /\ thread_handle = 1
    /\ fgpc = "idle"
    /\ reset = FALSE
    /\ n = 0
    /\ wr = "None"
    /\ req = <<>>
    /\ descriptor_bytes = ZeroHeader
    /\ hdr_in = ZeroHeader
    /\ len = 0
    /\ reads = <<>>
    /\ res = NoRes
    /\ ret = <<>>
    /\ joined = NoOwner
    /\ rpc = [r \in Readers |-> IF r = 1 THEN "desc_lock" ELSE "unborn"]
    /\ seeking = [r \in Readers |-> TRUE]
    /\ data = [r \in Readers |-> ZeroData]
    /\ sample = [r \in Readers |-> NoSample]
    /\ parity_failed = [r \in Readers |-> FALSE]
    /\ nOps = 0
    /\ nReads = 0

SpecScan == InitScan /\ [][Next]_vars

\* C12, the part about the stored handle: join() takes the handle out of
\* thread_handle; with none stored it returns at once and changes nothing
\* else; with one stored it returns only when that thread has ended, and a
\* join() called after it finds no handle
C12_JoinWaitsForHandle ==
    [][ /\ (fgpc = "idle" /\ nOps' # nOps /\ fgpc' \in {"idle", "join_wait"}) =>
              /\ thread_handle' = NoOwner
              /\ joined' = thread_handle
              /\ fgpc' = "idle" <=> thread_handle = NoOwner
              /\ UNCHANGED <<state, scan_buffer, readerVars>>
        /\ (fgpc = "join_wait" /\ fgpc' # fgpc) =>
              /\ rpc[joined] \in Ended
              /\ thread_handle' = NoOwner
              /\ fgpc' = "idle" <=> rpc[joined] = "done"
      ]_vars

\* C12 as stated: whenever join() returns, after waiting or at once, no
\* reader thread that was spawned is still running
C12_NoReaderAfterJoin ==
    [][ /\ (fgpc = "join_wait" /\ fgpc' = "idle") =>
              \A r \in Readers : ~Alive(r)
        /\ (fgpc = "idle" /\ nOps' # nOps /\ fgpc' = "idle") =>
              \A r \in Readers : ~Alive(r)
      ]_vars

\* C13: every step leaves the buffer as it was or longer by one sample at the
\* end; the buffer changes only in the step of a reader thread that holds
\* the buffer lock and pushes its sample; no step of the foreground
\* (get_n_samples, stop, reset, start_scan, join, the device commands)
\* changes it
C13_AppendOnly ==
    [][ /\ IsPrefix(scan_buffer, scan_buffer')
        /\ Len(scan_buffer') <= Len(scan_buffer) + 1
        /\ scan_buffer' # scan_buffer =>
              /\ fgpc' = fgpc
              /\ \E r \in Readers : /\ rpc[r] = "push" /\ buffer_owner = r
                                    /\ scan_buffer' = Append(scan_buffer, sample[r])
        /\ (fgpc' # fgpc \/ nOps' # nOps) => scan_buffer' = scan_buffer
      ]_vars

\* C13's case: a second scan session has been started after the first was
\* stopped and its reader thread returned, and the sample of the first
\* session is still in the buffer
C13_Witness ==
    /\ thread_handle = 2 /\ fgpc = "idle" /\ state = Scanning
    /\ rpc[1] = "done"
    /\ Len(scan_buffer) >= 1

(* ------------------------- fair scheduling ---------------------------- *)
\* a step of the foreground inside the method it has called
FgStep == fgpc # "idle" /\ Foreground

\* the threads are scheduled: a method that can go on does, and a reader
\* thread that can take a step again and again takes one (the holders of a
\* mutex it waits for sleep between two acquisitions: lidar.rs 284)
SpecFair ==
    /\ Spec
    /\ WF_vars(FgStep)
    /\ \A r \in Readers : SF_vars(Reader(r))

\* C14: a reader thread starts a 5-byte read only from its try_lock, and
\* comes to the try_lock only from a state check that read Scanning; a state
\* check that reads another state ends the thread: so once the state is not
\* Scanning and stays so, a thread starts at most the one read it had passed
\* the check for. Under fair scheduling, if the state is not Scanning from
\* some time on, then from some time on no reader thread is running
C14_BoundedStopLatency ==
    /\ [][\A r \in Readers :
            /\ (rpc'[r] = "read5" /\ rpc[r] # "read5") => rpc[r] = "trylock"
            /\ (rpc'[r] = "trylock" /\ rpc[r] # "trylock")
                  => (rpc[r] = "mode" /\ state = Scanning)
            /\ (rpc[r] = "mode" /\ rpc'[r] # "mode" /\ state # Scanning)
                  => rpc'[r] = "done"]_vars
    /\ (<>[](state # Scanning)) => <>[](\A r \in Readers : ~Alive(r))

\* C14's case: stop() has returned, the state is Idle, and a reader thread
\* that had passed its state check before is in its one further read
C14_Witness ==
    /\ state = Idle /\ fgpc = "idle"
    /\ \E r \in Readers : rpc[r] = "read5"

\* C15: when the 5-byte read of a reader thread returns without a quadruplet
\* delivered (an error of the transport), the thread goes to its state check
\* and does not end; the buffer, the seeking flag, its sample and its data
\* are as before, and the channel lock it held is free
C15_ReadErrorTransient ==
    [][\A r \in Readers :
          (rpc[r] = "read5" /\ rpc'[r] # "read5" /\ nReads' = nReads)
             => /\ rpc'[r] = "check"
                /\ channel_owner = r /\ channel_owner' = NoOwner
                /\ channel_poisoned' = channel_poisoned
                /\ scan_buffer' = scan_buffer
                /\ seeking' = seeking
                /\ sample' = sample
                /\ data' = data]_vars

\* C15's case: a reader thread that has found its start sample and appended
\* it holds the channel in a read that can only fail, the transport having
\* nothing more to deliver
C15_Witness ==
    \E r \in Readers :
        /\ rpc[r] = "read5" /\ nReads = MaxReads
        /\ ~seeking[r] /\ Len(scan_buffer) >= 1

\* bit k of x
Bit(x, k) == (x \div (2 ^ k)) % 2

\* C16 as stated: the decoding of a quadruplet prints no parity failure
\* exactly when bit 1 of byte 0 is the complement of bit 0 of byte 0 and bit
\* 0 of byte 1 is set
C16_ParityAsStated ==
    [][\A r \in Readers :
          (rpc[r] = "decode" /\ rpc'[r] # "decode")
             => (~parity_failed'[r] <=>
                    (/\ Bit(data[r][1], 1) = 1 - Bit(data[r][1], 0)
                     /\ Bit(data[r][2], 0) = 1))]_vars

\* what lidar.rs 241 computes: no parity failure is printed exactly when bit
\* 0 of byte 0 is clear, bit 1 of byte 0 is set and bit 0 of byte 1 is set
C16_ParityAsCoded ==
    [][\A r \in Readers :
          (rpc[r] = "decode" /\ rpc'[r] # "decode")
             => (~parity_failed'[r] <=>
                    (/\ Bit(data[r][1], 0) = 0
                     /\ Bit(data[r][1], 1) = 1
                     /\ Bit(data[r][2], 0) = 1))]_vars

\* C17: a reader thread that is no longer seeking, or whose quadruplet is a
\* start sample, goes from the decoding of every quadruplet it has read to
\* the buffer lock with the decoded Sample, whether the parity check failed
\* or not, and is no longer seeking; from there its only steps are to take
\* the lock and to append that Sample at the end of the buffer, before it
\* reads again; it goes back to seeking only by ending
C17_ParityDoesNotFilter ==
    [][\A r \in Readers :
          /\ (/\ rpc[r] = "decode" /\ rpc'[r] # "decode"
              /\ (~seeking[r] \/ DecodeSample(data[r]).start))
                => /\ rpc'[r] = "push_lock"
                   /\ sample'[r] = DecodeSample(data[r])
                   /\ parity_failed'[r] = ParityFailed(data[r])
                   /\ ~seeking'[r]
          /\ (rpc[r] = "push_lock" /\ rpc'[r] # "push_lock")
                => (rpc'[r] = "push" /\ sample'[r] = sample[r])
          /\ (rpc[r] = "push" /\ rpc'[r] # "push")
                => (/\ scan_buffer' = Append(scan_buffer, sample[r])
                    /\ rpc'[r] = "check")
          /\ (rpc[r] \in {"push_lock", "push"}) => sample'[r] = sample[r] \/ rpc'[r] = "check"
          /\ (~seeking[r] /\ seeking'[r]) => rpc'[r] \in Ended
      ]_vars

\* C17's case: a reader thread has appended a second sample, a start sample
\* again, whose quadruplet failed the parity check
C17_Witness ==
    \E r \in Readers :
        /\ rpc[r] = "check" /\ parity_failed[r]
        /\ Len(scan_buffer) = 2 /\ scan_buffer[2].start

\* where the foreground and a reader thread are in a write or a read of the
\* channel
FgChannelIO ==
    fgpc \in {"stop_write", "scan_write", "motor_write", "req_write",
              "rx_header", "rx_data"}
ReaderChannelIO(r) == rpc[r] \in {"desc_read", "read5"}

\* C18: a thread in a write or a read of the channel holds the channel lock,
\* so the foreground and a reader thread, or two reader threads, are never
\* both in one; from the request write of single_req to the end of rx's
\* payload read the foreground holds the lock and no reader thread is in a
\* read; every step of rx inside it leaves the lock with the foreground and
\* the reader threads' quadruplet count as it was
C18_ChannelExclusive ==
    /\ [](/\ FgChannelIO => channel_owner = FG
          /\ \A r \in Readers : ReaderChannelIO(r) => channel_owner = r
          /\ \A r \in Readers : ~(FgChannelIO /\ ReaderChannelIO(r))
          /\ fgpc \in {"req_write", "rx_header", "rx_parse", "rx_data"}
                => /\ channel_owner = FG
                   /\ \A r \in Readers : ~ReaderChannelIO(r))
    /\ [][(/\ fgpc \in {"req_write", "rx_header", "rx_parse", "rx_data"}
           /\ fgpc' \in {"req_write", "rx_header", "rx_parse", "rx_data"})
             => (channel_owner' = FG /\ nReads' = nReads)]_vars

\* C18's case: the foreground is between the header read and the payload
\* read of a command while a scan runs and a reader thread is at its
\* try_lock
C18_Witness ==
    /\ fgpc = "rx_data" /\ state = Scanning
    /\ \E r \in Readers : rpc[r] = "trylock" /\ ~seeking[r]

\* C19: no thread that holds the channel lock holds the buffer lock or is at
\* an acquisition of it, and no thread that holds the buffer lock is at an
\* acquisition of the channel lock: a reader thread from its decoding to its
\* append, and the foreground in get_n_samples, hold no channel lock; so the
\* holder of the channel a foreground command waits for is in no buffer
\* operation
C19_ChannelNotHeldOverBuffer ==
    /\ \A t \in Threads :
          /\ channel_owner = t => (buffer_owner # t /\ ~WantsBuffer(t))
          /\ buffer_owner = t => ~WantsChannel(t)
    /\ \A r \in Readers :
          rpc[r] \in {"decode", "push_lock", "push"} => channel_owner # r
    /\ fgpc \in {"gns_lock", "gns_check", "gns_lock2", "gns_copy"}
          => channel_owner # FG
    /\ \A r \in Readers :
          (WantsChannel(FG) /\ channel_owner = r)
             => (buffer_owner # r /\ ~WantsBuffer(r))

\* C19's case: a reader thread holds the buffer lock for its append while
\* the foreground holds the channel for the response of a command
C19_Witness ==
    /\ fgpc = "rx_header" /\ channel_owner = FG
    /\ \E r \in Readers : rpc[r] = "push" /\ buffer_owner = r

\* C20, the part about the reader thread alone: a spawned reader thread
\* begins at the blocking lock for its descriptor read; the descriptor read
\* delivers no quadruplet, changes no buffer and leads to the first state
\* check (or to the panic of expect), so it precedes every 5-byte read of
\* the thread
C20_DescriptorFirst ==
    [][\A r \in Readers :
          /\ (rpc[r] = "unborn" /\ rpc'[r] # "unborn") => rpc'[r] = "desc_lock"
          /\ (rpc[r] = "desc_lock" /\ rpc'[r] # "desc_lock")
                => rpc'[r] \in {"desc_read", "panicked"}
          /\ (rpc[r] = "desc_read" /\ rpc'[r] # "desc_read")
                => /\ rpc'[r] \in {"check", "panicked"}
                   /\ scan_buffer' = scan_buffer
                   /\ nReads' = nReads
                   /\ sample' = sample
          /\ (rpc'[r] = "desc_lock" \/ rpc'[r] = "desc_read")
                => rpc[r] \in {"unborn", "desc_lock", "desc_read"}
      ]_vars

\* C20 as stated: from the scan-start write that returned Ok until the
\* spawned reader thread has taken the channel for its descriptor read, the
\* foreground neither holds the channel nor writes to or reads from it, and
\* no other reader thread reads from it
C20_NothingBeforeDescriptor ==
    (\/ fgpc \in {"scan_state", "scan_set", "scan_spawn"}
     \/ \E r \in Readers : rpc[r] = "desc_lock")
       => /\ channel_owner # FG
          /\ ~FgChannelIO
          /\ \A q \in Readers : ~ReaderChannelIO(q)

====
